---- MODULE Spec2Model ----
(***************************************************************************)
(* Panel-votaciones-cosell-eco, frontend gateway.                          *)
(*                                                                         *)
(*   - profile client       src/frontend/public/topbar.js                  *)
(*   - login page           src/frontend/js/login.js                       *)
(*   - gateway (two builds) src/unnamed/part_000, src/unnamed/part_001     *)
(*                                                                         *)
(* The FastAPI backend of the repository is not among the sources; its     *)
(* answers are modelled from the interface tables of the specification     *)
(* (the Srv... and ...Answers definitions).                                *)
(***************************************************************************)
EXTENDS Integers, Sequences, FiniteSets, TLC

VARIABLES
    \* ---- topbar.js: DOM of the profile popup
    inputValue,     \* #<f>Input.value
    inputDisabled,  \* #<f>Input.disabled
    inputClass,     \* #<f>Input.classList restricted to {updated, pending}
    userName,       \* #userName.textContent
    userNIU,        \* #userNIU.textContent
    editHidden,     \* 'hidden' in #editBtn.classList
    saveHidden,     \* 'hidden' in #saveBtn.classList
    toasts,         \* children of #toastContainer, in document order
    \* ---- topbar.js: asynchronous calls in flight
    loadOp,         \* the loadPerfil() call made at script start
    saveOps,        \* the save click handlers that are awaiting their fetch
    escaped,        \* operations whose promise was rejected with nobody to catch it
    \* ---- backend profile resource and history of what the client was told
    srvPerfil,      \* the profile the backend holds
    srvSeq,         \* number of profile answers the backend has produced
    seenSeq,        \* highest srvSeq among the successful answers the client handled
    seenPerfil,     \* the perfil of that answer
    saved,          \* number of save clicks so far
    \* ---- login.js: DOM of the login page and client storage
    msgText,        \* #message.textContent
    emailStepHidden,\* 'hidden' in #email-step.classList
    otpStepHidden,  \* 'hidden' in #otp-step.classList
    accessToken,    \* localStorage item 'access_token'
    loginOps,       \* requestOtp / verifyOtp calls that are awaiting their fetch
    loginLast,      \* the call that resumed last and the answer its fetch gave
    loginClicks,    \* number of clicks on the two login buttons so far
    \* ---- gateway: the OTP proxy endpoints
    proxyCalls,     \* calls of /api/request-otp and /api/verify-otp awaiting the backend
    proxyLast,      \* the call answered last: the backend's answer and what was sent back
    proxyCount,     \* number of calls received so far
    \* ---- gateway: theme resolution
    themeBackend,   \* what the backend answers to GET /ajustes/theming at present
    pageTheme,      \* the page request served last: the answer its fetch got, its theme
    \* ---- topbar.js: window.showToast called by the pages' other scripts
    toastCalls      \* number of such calls so far

profileVars == <<inputValue, inputDisabled, inputClass, userName, userNIU,
                 editHidden, saveHidden, toasts, loadOp, saveOps, escaped,
                 srvPerfil, srvSeq, seenSeq, seenPerfil, saved>>

loginVars == <<msgText, emailStepHidden, otpStepHidden, accessToken, loginOps, loginLast,
               loginClicks>>

proxyVars == <<proxyCalls, proxyLast, proxyCount>>

themeVars == <<themeBackend, pageTheme>>

toastVars == <<toastCalls>>

vars == <<profileVars, loginVars, proxyVars, themeVars, toastVars>>

----------------------------------------------------------------------------
(* Bounds *)

\* number of save clicks in one behaviour
MaxSaves == 2
\* number of clicks on the login buttons in one behaviour
MaxLoginClicks == 3
\* number of calls of the proxy endpoints in one behaviour
MaxProxyCalls == 2
\* number of direct calls of window.showToast in one behaviour
MaxToasts == 3

----------------------------------------------------------------------------
(* JavaScript values *)

\* the value of a missing property
Undefined == "~undefined"

\* x || d for a string-or-undefined x
OrElse(x, d) == IF x = Undefined \/ x = "" THEN d ELSE x

\* p[f] for an object p
Get(p, f) == IF f \in DOMAIN p THEN p[f] ELSE Undefined

\* {}
EmptyObject == [f \in {} |-> ""]

\* resp.ok
IsOk(status) == status >= 200 /\ status <= 299

\* s without its i-th element
RemoveAt(s, i) == SubSeq(s, 1, i - 1) \o SubSeq(s, i + 1, Len(s))

----------------------------------------------------------------------------
(* topbar.js *)

Fields == {"nombre", "grupo", "curso", "niu"}

\* the order in which the code walks the fields
FieldOrder == <<"nombre", "grupo", "curso", "niu">>

\* the fields the user edits, and the text typed into them
TypedFields == {"grupo", "niu"}

Typeable == {"b"}

\* an answer to a fetch of /me/perfil, as the client receives it
\*   kind "transport": fetch rejected; kind "http": a response arrived
\*   wf: the body is parseable JSON
NoAnswer == [kind |-> "none", status |-> 0, wf |-> FALSE, perfil |-> EmptyObject,
             aplicados |-> <<>>, pendientes |-> <<>>, seq |-> 0]

TransportError == [NoAnswer EXCEPT !.kind = "transport"]

Http(status, wf) == [NoAnswer EXCEPT !.kind = "http", !.status = status, !.wf = wf]

\* the fields of S as a list, in field order
RECURSIVE ListOfFrom(_, _)
ListOfFrom(S, i) ==
    IF i > Len(FieldOrder) THEN <<>>
    ELSE (IF FieldOrder[i] \in S THEN <<FieldOrder[i]>> ELSE <<>>) \o ListOfFrom(S, i + 1)

ListOf(S) == ListOfFrom(S, 1)

Range(s) == {s[i] : i \in 1..Len(s)}

\* fieldMsg(f, applied)
fieldMsg(f, applied) ==
    LET names == [nombre |-> "Nombre", grupo |-> "Grupo", curso |-> "Curso", niu |-> "NIU"]
    IN IF applied THEN names[f] \o " modificado correctamente"
       ELSE "Cambio de " \o names[f] \o " solicitado correctamente"

\* showToast(msg, type): the element appended to #toastContainer
Toast(msg, type) == [msg |-> msg, type |-> type, hide |-> FALSE]

\* the forEach of lines 75..76 calling showToast(msg) without its second argument
RECURSIVE ToastsForDefaultType(_, _)
ToastsForDefaultType(list, applied) ==
    IF list = <<>> THEN <<>>
    ELSE <<Toast(fieldMsg(Head(list), applied), "info")>>
         \o ToastsForDefaultType(Tail(list), applied)

\* the toasts of one forEach over a list of field names
RECURSIVE ToastsFor(_, _)
ToastsFor(list, applied) ==
    IF list = <<>> THEN <<>>
    ELSE <<Toast(fieldMsg(Head(list), applied), IF applied THEN "success" ELSE "warning")>>
         \o ToastsFor(Tail(list), applied)

\* what the form and the display show for a profile object p
Shown(p) == [f \in Fields |-> OrElse(Get(p, f), "")]

\* fetchJSON: null on a non-ok status, the parsed body otherwise;
\* the caller's `|| {}` and `data.perfil || {}` give the object that is rendered
LoadedPerfil(ans) == IF IsOk(ans.status) THEN ans.perfil ELSE EmptyObject

\* classList after line 68 and the two forEach loops of the save handler
ClearedClass(cls) == cls \ {"updated", "pending"}

\* the marking without the classList.remove of line 68
MarkedClassKeepingOld(cls, f, ans) ==
    cls \cup (IF f \in Range(ans.aplicados) THEN {"updated"} ELSE {})
        \cup (IF f \in Range(ans.pendientes) THEN {"pending"} ELSE {})

\* lines 75..76 with the two class names exchanged
MarkedClassSwapped(cls, f, ans) ==
    ClearedClass(cls)
      \cup (IF f \in Range(ans.aplicados) THEN {"pending"} ELSE {})
      \cup (IF f \in Range(ans.pendientes) THEN {"updated"} ELSE {})

MarkedClass(cls, f, ans) ==
    ClearedClass(cls)
        \cup (IF f \in Range(ans.aplicados) THEN {"updated"} ELSE {})
        \cup (IF f \in Range(ans.pendientes) THEN {"pending"} ELSE {})

ProfileInit ==
    /\ inputValue = [f \in Fields |-> ""]
    /\ inputDisabled = [f \in Fields |-> TRUE]
    /\ inputClass = [f \in Fields |-> {}]
    /\ userName = ""
    /\ userNIU = ""
    /\ editHidden = FALSE
    /\ saveHidden = TRUE
    /\ toasts = <<>>
    /\ loadOp = [st |-> "sent", ans |-> NoAnswer]   \* line 43: loadPerfil() is called on load
    /\ saveOps = <<>>
    /\ escaped = {}
    /\ srvPerfil = [f \in Fields |-> IF f = "nombre" THEN "a" ELSE ""]
    /\ srvSeq = 0
    /\ seenSeq = 0
    /\ seenPerfil = EmptyObject
    /\ saved = 0

\* the client learns of a successful answer: remember the latest one the backend produced
Learn(ans) ==
    IF ans.seq > seenSeq
    THEN /\ seenSeq' = ans.seq
         /\ seenPerfil' = ans.perfil
    ELSE UNCHANGED <<seenSeq, seenPerfil>>

\* what the backend's failures look like to a fetch of /me/perfil: no response at all,
\* a success status with a body that is not JSON, a refusal with a JSON body
ProfileFailures == {TransportError, Http(200, FALSE), Http(401, TRUE)}

\* loadPerfil (lines 36..42) after its await, on the answer ans
LoadPerfilHandle(ans) ==
    IF ans.kind = "transport" \/ (IsOk(ans.status) /\ ~ans.wf)
    THEN \* fetch or resp.json() rejects; loadPerfil() is called without a catch
         /\ escaped' = escaped \cup {"loadPerfil"}
         /\ UNCHANGED <<inputValue, userName, userNIU, seenSeq, seenPerfil>>
    ELSE LET p == LoadedPerfil(ans) IN
         /\ userName' = OrElse(Get(p, "nombre"), "")
         /\ userNIU' = OrElse(Get(p, "niu"), "")
         /\ inputValue' = Shown(p)
         /\ IF IsOk(ans.status) THEN Learn(ans) ELSE UNCHANGED <<seenSeq, seenPerfil>>
         /\ UNCHANGED escaped

\* the backend's answer to GET /me/perfil reaches loadPerfil
LoadPerfilResume ==
    /\ UNCHANGED <<loginVars, proxyVars, themeVars, toastVars>>
    /\ loadOp.st = "answered"
    /\ loadOp' = [st |-> "done", ans |-> NoAnswer]
    /\ LoadPerfilHandle(loadOp.ans)
    /\ UNCHANGED <<inputDisabled, inputClass, editHidden, saveHidden, toasts, saveOps,
                   srvPerfil, srvSeq, saved>>

\* the fetch of loadPerfil fails
LoadPerfilFail ==
    /\ UNCHANGED <<loginVars, proxyVars, themeVars, toastVars>>
    /\ loadOp.st = "sent"
    /\ \E ans \in ProfileFailures :
          /\ loadOp' = [st |-> "done", ans |-> NoAnswer]
          /\ LoadPerfilHandle(ans)
    /\ UNCHANGED <<inputDisabled, inputClass, editHidden, saveHidden, toasts, saveOps,
                   srvPerfil, srvSeq, saved>>

\* editBtn click (lines 49..53)
\* the edit click handler without line 51
EditClickKeepingEdit ==
    /\ UNCHANGED <<loginVars, proxyVars, themeVars, toastVars>>
    /\ ~editHidden
    /\ inputDisabled' = [f \in Fields |-> FALSE]
    /\ saveHidden' = FALSE
    /\ UNCHANGED <<inputValue, inputClass, userName, userNIU, toasts, loadOp, saveOps,
                   escaped, srvPerfil, srvSeq, seenSeq, seenPerfil, saved, editHidden>>

EditClick ==
    /\ UNCHANGED <<loginVars, proxyVars, themeVars, toastVars>>
    /\ ~editHidden
    /\ inputDisabled' = [f \in Fields |-> FALSE]
    /\ editHidden' = TRUE
    /\ saveHidden' = FALSE
    /\ UNCHANGED <<inputValue, inputClass, userName, userNIU, toasts, loadOp, saveOps,
                   escaped, srvPerfil, srvSeq, seenSeq, seenPerfil, saved>>

\* the user types into an enabled field
TypeText(f, v) ==
    /\ UNCHANGED <<loginVars, proxyVars, themeVars, toastVars>>
    /\ ~inputDisabled[f]
    /\ inputValue[f] # v
    /\ inputValue' = [inputValue EXCEPT ![f] = v]
    /\ UNCHANGED <<inputDisabled, inputClass, userName, userNIU, editHidden, saveHidden,
                   toasts, loadOp, saveOps, escaped, srvPerfil, srvSeq, seenSeq, seenPerfil,
                   saved>>

\* saveBtn click, up to the await of fetch (lines 55..65)
SaveClick ==
    /\ UNCHANGED <<loginVars, proxyVars, themeVars, toastVars>>
    /\ ~saveHidden
    /\ saved < MaxSaves
    /\ saved' = saved + 1
    /\ saveOps' = Append(saveOps, [st |-> "sent", body |-> inputValue, ans |-> NoAnswer])
    /\ UNCHANGED <<inputValue, inputDisabled, inputClass, userName, userNIU, editHidden,
                   saveHidden, toasts, loadOp, escaped, srvPerfil, srvSeq, seenSeq, seenPerfil>>

\* the save click handler without line 72: the typed values stay in the form
SaveHandleKeepingTyped(ans) ==
    IF ans.kind = "transport" \/ ~ans.wf
    THEN /\ escaped' = escaped \cup {"save"}
         /\ UNCHANGED <<inputValue, inputDisabled, inputClass, userName, userNIU,
                        editHidden, saveHidden, toasts, seenSeq, seenPerfil>>
    ELSE IF ~IsOk(ans.status)
    THEN UNCHANGED <<inputValue, inputDisabled, inputClass, userName, userNIU,
                     editHidden, saveHidden, toasts, escaped, seenSeq, seenPerfil>>
    ELSE LET p == ans.perfil IN
         /\ inputDisabled' = [f \in Fields |-> TRUE]
         /\ inputClass' = [f \in Fields |-> MarkedClass(inputClass[f], f, ans)]
         /\ editHidden' = FALSE
         /\ saveHidden' = TRUE
         /\ userName' = OrElse(Get(p, "nombre"), "")
         /\ userNIU' = OrElse(Get(p, "niu"), "")
         /\ toasts' = toasts \o ToastsFor(ans.aplicados, TRUE)
                             \o ToastsFor(ans.pendientes, FALSE)
         /\ Learn(ans)
         /\ UNCHANGED <<escaped, inputValue>>

\* the save click handler with lines 68..70 moved out of the resp.ok test: a refused
\* save leaves edit mode
SaveHandleLeavingEdit(ans) ==
    IF ans.kind = "transport" \/ ~ans.wf
    THEN /\ escaped' = escaped \cup {"save"}
         /\ UNCHANGED <<inputValue, inputDisabled, inputClass, userName, userNIU,
                        editHidden, saveHidden, toasts, seenSeq, seenPerfil>>
    ELSE IF ~IsOk(ans.status)
    THEN /\ inputDisabled' = [f \in Fields |-> TRUE]
         /\ editHidden' = FALSE
         /\ saveHidden' = TRUE
         /\ UNCHANGED <<inputValue, inputClass, userName, userNIU,
                        toasts, escaped, seenSeq, seenPerfil>>
    ELSE LET p == ans.perfil IN
         /\ inputDisabled' = [f \in Fields |-> TRUE]
         /\ inputClass' = [f \in Fields |-> MarkedClass(inputClass[f], f, ans)]
         /\ editHidden' = FALSE
         /\ saveHidden' = TRUE
         /\ inputValue' = Shown(p)
         /\ userName' = OrElse(Get(p, "nombre"), "")
         /\ userNIU' = OrElse(Get(p, "niu"), "")
         /\ toasts' = toasts \o ToastsFor(ans.aplicados, TRUE)
                             \o ToastsFor(ans.pendientes, FALSE)
         /\ Learn(ans)
         /\ UNCHANGED escaped

\* the save click handler (lines 66..77) after its awaits, on the answer ans
SaveHandle(ans) ==
    IF ans.kind = "transport" \/ ~ans.wf
    THEN \* fetch or resp.json() rejects inside an async listener
         /\ escaped' = escaped \cup {"save"}
         /\ UNCHANGED <<inputValue, inputDisabled, inputClass, userName, userNIU,
                        editHidden, saveHidden, toasts, seenSeq, seenPerfil>>
    ELSE IF ~IsOk(ans.status)
    THEN UNCHANGED <<inputValue, inputDisabled, inputClass, userName, userNIU,
                     editHidden, saveHidden, toasts, escaped, seenSeq, seenPerfil>>
    ELSE LET p == ans.perfil IN
         /\ inputDisabled' = [f \in Fields |-> TRUE]
         /\ inputClass' = [f \in Fields |-> MarkedClass(inputClass[f], f, ans)]
         /\ editHidden' = FALSE
         /\ saveHidden' = TRUE
         /\ inputValue' = Shown(p)
         /\ userName' = OrElse(Get(p, "nombre"), "")
         /\ userNIU' = OrElse(Get(p, "niu"), "")
         /\ toasts' = toasts \o ToastsFor(ans.aplicados, TRUE)
                             \o ToastsFor(ans.pendientes, FALSE)
         /\ Learn(ans)
         /\ UNCHANGED escaped

\* the backend's answer to a PATCH reaches the save handler that sent it
SaveResume(i) ==
    /\ UNCHANGED <<loginVars, proxyVars, themeVars, toastVars>>
    /\ i \in 1..Len(saveOps)
    /\ saveOps[i].st = "answered"
    /\ saveOps' = RemoveAt(saveOps, i)
    /\ SaveHandle(saveOps[i].ans)
    /\ UNCHANGED <<loadOp, srvPerfil, srvSeq, saved>>

\* the fetch of a save handler fails
SaveFail(i) ==
    /\ UNCHANGED <<loginVars, proxyVars, themeVars, toastVars>>
    /\ i \in 1..Len(saveOps)
    /\ saveOps[i].st = "sent"
    /\ \E ans \in ProfileFailures :
          /\ saveOps' = RemoveAt(saveOps, i)
          /\ SaveHandle(ans)
    /\ UNCHANGED <<loadOp, srvPerfil, srvSeq, saved>>

----------------------------------------------------------------------------
(* backend: /me/perfil *)

\* GET /me/perfil is answered with the stored profile
SrvGetPerfil ==
    /\ UNCHANGED <<loginVars, proxyVars, themeVars, toastVars>>
    /\ loadOp.st = "sent"
    /\ loadOp' = [st |-> "answered",
                  ans |-> [Http(200, TRUE) EXCEPT !.perfil = srvPerfil, !.seq = srvSeq + 1]]
    /\ srvSeq' = srvSeq + 1
    /\ UNCHANGED <<inputValue, inputDisabled, inputClass, userName, userNIU, editHidden,
                   saveHidden, toasts, saveOps, escaped, srvPerfil, seenSeq, seenPerfil,
                   saved>>

\* the fields of a patch whose value differs from the stored one
Changed(body) == {f \in Fields : body[f] # srvPerfil[f]}

\* the backend's successful answer to a patch that applies the fields of ap and holds
\* the other changed fields for approval
PatchAnswer(body, ap) ==
    [Http(200, TRUE) EXCEPT
        !.perfil = [f \in Fields |-> IF f \in ap THEN body[f] ELSE srvPerfil[f]],
        !.aplicados = ListOf(ap),
        !.pendientes = ListOf(Changed(body) \ ap),
        !.seq = srvSeq + 1]

\* PATCH /me/perfil is accepted
SrvPatchPerfil(i) ==
    /\ UNCHANGED <<loginVars, proxyVars, themeVars, toastVars>>
    /\ i \in 1..Len(saveOps)
    /\ saveOps[i].st = "sent"
    /\ \E ap \in SUBSET Changed(saveOps[i].body) :
          LET ans == PatchAnswer(saveOps[i].body, ap) IN
          /\ saveOps' = [saveOps EXCEPT ![i] = [st |-> "answered", body |-> EmptyObject, ans |-> ans]]
          /\ srvPerfil' = ans.perfil
          /\ srvSeq' = ans.seq
    /\ UNCHANGED <<inputValue, inputDisabled, inputClass, userName, userNIU, editHidden,
                   saveHidden, toasts, loadOp, escaped, seenSeq, seenPerfil, saved>>

----------------------------------------------------------------------------
(* login.js *)

\* a response body: text that is not JSON, the JSON value null, or a JSON object
Malformed == [form |-> "malformed", obj |-> EmptyObject]

JsonNull == [form |-> "null", obj |-> EmptyObject]

JsonObject(o) == [form |-> "object", obj |-> o]

\* what a fetch gives: a rejection (no response at all) or a response
NoResponse == [kind |-> "transport", status |-> 0, body |-> Malformed]

Response(status, body) == [kind |-> "http", status |-> status, body |-> body]

\* localStorage.getItem of a key that was never set
NoItem == "~null"

\* the string localStorage.setItem stores for a value
ToStored(v) == IF v = Undefined THEN "undefined" ELSE v

\* the object built from the properties whose value is not undefined
Obj(o) == [k \in {k \in DOMAIN o : o[k] # Undefined} |-> o[k]]

\* POST /auth/otp/request as the backend answers it
RequestAnswers ==
    {NoResponse, Response(200, Malformed), Response(200, JsonNull),
     Response(400, JsonNull), Response(500, Malformed)}
    \cup {Response(200, JsonObject(Obj([message |-> m]))) : m \in {Undefined, "", "sent"}}
    \cup {Response(400, JsonObject(Obj([detail |-> d]))) : d \in {Undefined, "", "invalid email"}}

\* POST /auth/otp/verify as the backend answers it
VerifyAnswers ==
    {NoResponse, Response(200, Malformed), Response(200, JsonNull),
     Response(400, JsonNull), Response(500, Malformed)}
    \cup {Response(200, JsonObject(Obj([message |-> m, access_token |-> t]))) :
             m \in {Undefined, "", "welcome"}, t \in {"t1", "t2"}}
    \cup {Response(400, JsonObject(Obj([detail |-> d]))) : d \in {Undefined, "", "bad code"}}

\* requestOtp without the two classList calls of lines 46..47
RequestOutcomeStaying(ans) ==
    IF ans.kind = "transport"
    THEN [msg |-> "Error de red", advance |-> FALSE]
    ELSE IF IsOk(ans.status)
    THEN IF ans.body.form # "object"
         THEN [msg |-> "Error de red", advance |-> FALSE]
         ELSE [msg |-> OrElse(Get(ans.body.obj, "message"), "Código enviado"),
               advance |-> FALSE]
    ELSE IF ans.body.form = "null"
         THEN [msg |-> "Error de red", advance |-> FALSE]
         ELSE [msg |-> OrElse(Get(IF ans.body.form = "object" THEN ans.body.obj
                                  ELSE EmptyObject, "detail"),
                              "Error al solicitar código"),
               advance |-> FALSE]

\* outcome of lines 43..53 of requestOtp on the answer of its fetch:
\* the text of #message and whether the page moves to the code step
RequestOutcome(ans) ==
    IF ans.kind = "transport"
    THEN [msg |-> "Error de red", advance |-> FALSE]
    ELSE IF IsOk(ans.status)
    THEN \* await resp.json() and data.message are inside the try
         IF ans.body.form # "object"
         THEN [msg |-> "Error de red", advance |-> FALSE]
         ELSE [msg |-> OrElse(Get(ans.body.obj, "message"), "Código enviado"),
               advance |-> TRUE]
    ELSE \* resp.json().catch(() => ({})) covers the parse only, not data.detail of null
         IF ans.body.form = "null"
         THEN [msg |-> "Error de red", advance |-> FALSE]
         ELSE [msg |-> OrElse(Get(IF ans.body.form = "object" THEN ans.body.obj
                                  ELSE EmptyObject, "detail"),
                              "Error al solicitar código"),
               advance |-> FALSE]

\* verifyOtp storing data.access_token whatever the status
VerifyOutcomeStoringAlways(ans) ==
    IF ans.kind = "transport" \/ ans.body.form # "object"
    THEN [msg |-> "Error de red", store |-> FALSE, token |-> Undefined]
    ELSE [msg |-> IF IsOk(ans.status)
                  THEN OrElse(Get(ans.body.obj, "message"), "Acceso concedido")
                  ELSE OrElse(Get(ans.body.obj, "detail"), "Error al verificar código"),
          store |-> TRUE, token |-> Get(ans.body.obj, "access_token")]

\* outcome of lines 68..78 of verifyOtp: the text of #message, and whether and what it stores
VerifyOutcome(ans) ==
    IF ans.kind = "transport"
    THEN [msg |-> "Error de red", store |-> FALSE, token |-> Undefined]
    ELSE IF IsOk(ans.status)
    THEN IF ans.body.form # "object"
         THEN [msg |-> "Error de red", store |-> FALSE, token |-> Undefined]
         ELSE [msg |-> OrElse(Get(ans.body.obj, "message"), "Acceso concedido"),
               store |-> TRUE, token |-> Get(ans.body.obj, "access_token")]
    ELSE IF ans.body.form = "null"
         THEN [msg |-> "Error de red", store |-> FALSE, token |-> Undefined]
         ELSE [msg |-> OrElse(Get(IF ans.body.form = "object" THEN ans.body.obj
                                  ELSE EmptyObject, "detail"),
                              "Error al verificar código"),
               store |-> FALSE, token |-> Undefined]

LoginInit ==
    /\ msgText = ""
    /\ emailStepHidden = FALSE
    /\ otpStepHidden = TRUE
    /\ accessToken = NoItem
    /\ loginOps = <<>>
    /\ loginLast = [op |-> "none", ans |-> NoResponse]
    /\ loginClicks = 0

\* click on #request-otp: requestOtp up to its await (lines 34..42)
RequestOtpClick ==
    /\ UNCHANGED <<profileVars, proxyVars, themeVars, toastVars>>
    /\ ~emailStepHidden
    /\ loginClicks < MaxLoginClicks
    /\ loginClicks' = loginClicks + 1
    /\ msgText' = ""
    /\ loginOps' = Append(loginOps, "request")
    /\ UNCHANGED <<emailStepHidden, otpStepHidden, accessToken, loginLast>>

\* click on #verify-otp: verifyOtp up to its await (lines 58..67)
VerifyOtpClick ==
    /\ UNCHANGED <<profileVars, proxyVars, themeVars, toastVars>>
    /\ ~otpStepHidden
    /\ loginClicks < MaxLoginClicks
    /\ loginClicks' = loginClicks + 1
    /\ msgText' = ""
    /\ loginOps' = Append(loginOps, "verify")
    /\ UNCHANGED <<emailStepHidden, otpStepHidden, accessToken, loginLast>>

\* requestOtp resumes on the answer of its fetch (lines 43..54)
RequestOtpResume(i, ans) ==
    /\ UNCHANGED <<profileVars, proxyVars, themeVars, toastVars>>
    /\ i \in 1..Len(loginOps)
    /\ loginOps[i] = "request"
    /\ loginOps' = RemoveAt(loginOps, i)
    /\ loginLast' = [op |-> "request", ans |-> ans]
    /\ LET out == RequestOutcome(ans) IN
       /\ msgText' = out.msg
       /\ emailStepHidden' = IF out.advance THEN TRUE ELSE emailStepHidden
       /\ otpStepHidden' = IF out.advance THEN FALSE ELSE otpStepHidden
    /\ UNCHANGED <<accessToken, loginClicks>>

\* verifyOtp resumes on the answer of its fetch (lines 68..78)
VerifyOtpResume(i, ans) ==
    /\ UNCHANGED <<profileVars, proxyVars, themeVars, toastVars>>
    /\ i \in 1..Len(loginOps)
    /\ loginOps[i] = "verify"
    /\ loginOps' = RemoveAt(loginOps, i)
    /\ loginLast' = [op |-> "verify", ans |-> ans]
    /\ LET out == VerifyOutcome(ans) IN
       /\ msgText' = out.msg
       /\ accessToken' = IF out.store THEN ToStored(out.token) ELSE accessToken
    /\ UNCHANGED <<emailStepHidden, otpStepHidden, loginClicks>>

LoginNext ==
    \/ RequestOtpClick
    \/ VerifyOtpClick
    \/ \E i \in 1..MaxLoginClicks, ans \in RequestAnswers : RequestOtpResume(i, ans)
    \/ \E i \in 1..MaxLoginClicks, ans \in VerifyAnswers : VerifyOtpResume(i, ans)

----------------------------------------------------------------------------
(* gateway: POST /api/request-otp and POST /api/verify-otp
   (part_000 lines 56..82, part_001 lines 40..66: the same code in both builds) *)

\* values of req.body.email and req.body.otp
Emails == {Undefined, "user@x.com"}

Otps == {Undefined, "123456"}

\* the body relayed to the backend: JSON.stringify leaves out undefined properties
RelayedBody(endpoint, email, otp) ==
    IF endpoint = "request-otp" THEN Obj([email |-> email])
    ELSE Obj([email |-> email, otp |-> otp])

\* what the backend may answer to a relayed call
BackendAnswers(endpoint) ==
    (IF endpoint = "request-otp" THEN RequestAnswers ELSE VerifyAnswers)
        \cup {Response(500, JsonObject([detail |-> "internal error"]))}

\* the catch branch of both handlers
ProxyFailure == [status |-> 500,
                 body |-> JsonObject([detail |-> "Error de conexión con backend"])]

\* a handler that relays successful answers only
ProxyOutcomeOkOnly(ans) ==
    IF ans.kind = "transport" \/ ans.body.form = "malformed" \/ ~IsOk(ans.status)
    THEN ProxyFailure
    ELSE [status |-> ans.status, body |-> ans.body]

\* what a handler sends to its caller on the answer of its fetch:
\* fetch and resp.json() are inside the try, then res.status(resp.status).json(data)
ProxyOutcome(ans) ==
    IF ans.kind = "transport" \/ ans.body.form = "malformed"
    THEN ProxyFailure
    ELSE [status |-> ans.status, body |-> ans.body]

ProxyInit ==
    /\ proxyCalls = <<>>
    /\ proxyLast = [endpoint |-> "none", ans |-> NoResponse, out |-> ProxyFailure]
    /\ proxyCount = 0

\* a call arrives: the handler runs up to its await of fetch
ProxyReceive(endpoint, email, otp) ==
    /\ UNCHANGED <<profileVars, loginVars, themeVars, toastVars>>
    /\ proxyCount < MaxProxyCalls
    /\ proxyCount' = proxyCount + 1
    /\ proxyCalls' = Append(proxyCalls, [endpoint |-> endpoint,
                                         relayed |-> RelayedBody(endpoint, email, otp)])
    /\ UNCHANGED proxyLast

\* the handler resumes on the answer of its fetch and answers its caller
ProxyRespond(i, ans) ==
    /\ UNCHANGED <<profileVars, loginVars, themeVars, toastVars>>
    /\ i \in 1..Len(proxyCalls)
    /\ ans \in BackendAnswers(proxyCalls[i].endpoint)
    /\ proxyCalls' = RemoveAt(proxyCalls, i)
    /\ proxyLast' = [endpoint |-> proxyCalls[i].endpoint, ans |-> ans, out |-> ProxyOutcome(ans)]
    /\ UNCHANGED proxyCount

ProxyNext ==
    \/ \E e \in {"request-otp", "verify-otp"}, m \in Emails, o \in Otps : ProxyReceive(e, m, o)
    \/ \E i \in 1..MaxProxyCalls, ans \in BackendAnswers("request-otp") \cup BackendAnswers("verify-otp") :
          ProxyRespond(i, ans)

----------------------------------------------------------------------------
(* gateway: theme resolution
   (part_000 lines 23..33, the middleware; part_001 lines 15..23, getTheme) *)

Roles == {"primary", "secondary", "topbar", "accent"}

\* colours the backend may configure
Colors == {"#111111"}

\* the partial mappings of roles to colours
ThemeObjects == UNION {[S -> Colors] : S \in SUBSET Roles}

\* what the backend may answer to GET /ajustes/theming
ThemeAnswers ==
    {NoResponse}
    \cup {Response(s, b) : s \in {200, 404}, b \in {Malformed, JsonNull}}
    \cup {Response(s, JsonObject(o)) : s \in {200, 404}, o \in ThemeObjects}

\* part_000 lines 8..13
DEFAULT_THEME ==
    JsonObject([primary |-> "#0ea5e9", secondary |-> "#64748b", topbar |-> "#64748b",
                accent |-> "#22c55e"])

\* part_001 line 21
GetThemeFallback ==
    JsonObject([primary |-> "#0ea5e9", secondary |-> "#64748b", topbar |-> "#64748b",
                accent |-> "#22c55e"])

\* a resolver without the resp.ok test
ResolveThemeIgnoringStatus(ans, fallback) ==
    IF ans.kind = "transport" THEN fallback
    ELSE IF ans.body.form = "malformed" THEN fallback
    ELSE ans.body

\* a resolver that fills the roles the backend left out from the fallback
ResolveThemeMerging(ans, fallback) ==
    IF ans.kind = "transport" THEN fallback
    ELSE IF ~IsOk(ans.status) THEN fallback
    ELSE IF ans.body.form = "malformed" THEN fallback
    ELSE IF ans.body.form = "null" THEN ans.body
    ELSE JsonObject([r \in Roles |-> IF r \in DOMAIN ans.body.obj THEN ans.body.obj[r]
                                     ELSE fallback.obj[r]])

\* a resolver that keeps the first theme it resolved and returns it from then on
ResolveThemeRemembering(ans, fallback) ==
    IF pageTheme.build # "none" THEN pageTheme.theme
    ELSE IF ans.kind = "transport" THEN fallback
    ELSE IF ~IsOk(ans.status) THEN fallback
    ELSE IF ans.body.form = "malformed" THEN fallback
    ELSE ans.body

\* try { fetch; if (!ok) throw; return await json() } catch { return fallback }
ResolveTheme(ans, fallback) ==
    IF ans.kind = "transport" THEN fallback
    ELSE IF ~IsOk(ans.status) THEN fallback
    ELSE IF ans.body.form = "malformed" THEN fallback
    ELSE ans.body

ThemeInit ==
    /\ themeBackend = NoResponse
    /\ pageTheme = [build |-> "none", ans |-> NoResponse, theme |-> JsonNull]

\* the backend's theming changes, or the backend goes down or comes back
BackendThemeChange(ans) ==
    /\ UNCHANGED <<profileVars, loginVars, proxyVars, toastVars>>
    /\ ans # themeBackend
    /\ themeBackend' = ans
    /\ UNCHANGED pageTheme

\* part_000: the middleware sets res.locals.theme for a page request
ThemeMiddleware ==
    /\ UNCHANGED <<profileVars, loginVars, proxyVars, toastVars>>
    /\ pageTheme' = [build |-> "part_000", ans |-> themeBackend,
                     theme |-> ResolveTheme(themeBackend, DEFAULT_THEME)]
    /\ UNCHANGED themeBackend

\* part_001: a page route awaits getTheme() and renders with its result
GetThemeRoute ==
    /\ UNCHANGED <<profileVars, loginVars, proxyVars, toastVars>>
    /\ pageTheme' = [build |-> "part_001", ans |-> themeBackend,
                     theme |-> ResolveTheme(themeBackend, GetThemeFallback)]
    /\ UNCHANGED themeBackend

ThemeNext ==
    \/ \E ans \in ThemeAnswers : BackendThemeChange(ans)
    \/ ThemeMiddleware
    \/ GetThemeRoute

----------------------------------------------------------------------------
(* topbar.js: the life of a toast *)

\* the texts and types showToast is called with: two of fieldMsg's, and the three types
ToastTexts == {fieldMsg("grupo", TRUE), fieldMsg("niu", FALSE)}
ToastTypes == {"info", "success", "warning"}

ToastInit == toastCalls = 0

\* showToast(msg, type) up to setTimeout: the element is appended without 'hide' and
\* its timer is started (with no #toastContainer the call returns at line 10)
ShowToast(msg, type) ==
    /\ UNCHANGED <<loginVars, proxyVars, themeVars>>
    /\ toastCalls < MaxToasts
    /\ toastCalls' = toastCalls + 1
    /\ toasts' = Append(toasts, Toast(msg, type))
    /\ UNCHANGED <<inputValue, inputDisabled, inputClass, userName, userNIU, editHidden,
                   saveHidden, loadOp, saveOps, escaped, srvPerfil, srvSeq, seenSeq,
                   seenPerfil, saved>>

\* the timer of toast i fires (lines 15..18): 'hide' is added and the animationend
\* listener is registered
ToastTimeout(i) ==
    /\ UNCHANGED <<loginVars, proxyVars, themeVars, toastVars>>
    /\ i \in 1..Len(toasts)
    /\ ~toasts[i].hide
    /\ toasts' = [toasts EXCEPT ![i].hide = TRUE]
    /\ UNCHANGED <<inputValue, inputDisabled, inputClass, userName, userNIU, editHidden,
                   saveHidden, loadOp, saveOps, escaped, srvPerfil, srvSeq, seenSeq,
                   seenPerfil, saved>>

\* a timer callback that removes the element itself instead of waiting for animationend
ToastRemovedByTimer(i) ==
    /\ UNCHANGED <<loginVars, proxyVars, themeVars, toastVars>>
    /\ i \in 1..Len(toasts)
    /\ toasts' = RemoveAt(toasts, i)
    /\ UNCHANGED <<inputValue, inputDisabled, inputClass, userName, userNIU, editHidden,
                   saveHidden, loadOp, saveOps, escaped, srvPerfil, srvSeq, seenSeq,
                   seenPerfil, saved>>

\* animationend is dispatched on toast i, whose listener (line 17) removes it; the
\* listener exists only once 'hide' has been added
ToastAnimationEnd(i) ==
    /\ UNCHANGED <<loginVars, proxyVars, themeVars, toastVars>>
    /\ i \in 1..Len(toasts)
    /\ toasts[i].hide
    /\ toasts' = RemoveAt(toasts, i)
    /\ UNCHANGED <<inputValue, inputDisabled, inputClass, userName, userNIU, editHidden,
                   saveHidden, loadOp, saveOps, escaped, srvPerfil, srvSeq, seenSeq,
                   seenPerfil, saved>>

ToastNext ==
    \/ \E msg \in ToastTexts, type \in ToastTypes : ShowToast(msg, type)
    \/ \E i \in 1..MaxToasts : ToastTimeout(i)
    \/ \E i \in 1..MaxToasts : ToastAnimationEnd(i)

----------------------------------------------------------------------------
(* the specifications *)

Init == ProfileInit /\ LoginInit /\ ProxyInit /\ ThemeInit /\ ToastInit

ProfileNext ==
    \/ LoadPerfilResume
    \/ LoadPerfilFail
    \/ EditClick
    \/ \E f \in TypedFields, v \in Typeable : TypeText(f, v)
    \/ SaveClick
    \/ \E i \in 1..MaxSaves : SaveResume(i)
    \/ \E i \in 1..MaxSaves : SaveFail(i)
    \/ SrvGetPerfil
    \/ \E i \in 1..MaxSaves : SrvPatchPerfil(i)

SpecProfile == Init /\ [][ProfileNext]_vars

SpecLogin == Init /\ [][LoginNext]_vars

SpecProxy == Init /\ [][ProxyNext]_vars

SpecTheme == Init /\ [][ThemeNext]_vars

\* The event loop runs a timer's callback once its delay has elapsed, and the browser
\* dispatches animationend when the dismissal animation of a toast marked 'hide' has
\* run to its end: neither stays pending forever while the page is open.
SpecToast ==
    /\ Init
    /\ [][ToastNext]_vars
    /\ WF_vars(\E i \in 1..MaxToasts : ToastTimeout(i))
    /\ WF_vars(\E i \in 1..MaxToasts : ToastAnimationEnd(i))

----------------------------------------------------------------------------
(* Properties of the profile client *)

\* all four fields are disabled
Viewing == \A f \in Fields : inputDisabled[f]

\* a step in which loadPerfil handles a failed fetch
LoadFailureStep == loadOp.st = "sent" /\ loadOp'.st = "done"

\* a step in which a save handler handles the backend's successful answer
SaveSuccessStep ==
    \E i \in 1..Len(saveOps) : saveOps[i].st = "answered" /\ saveOps' = RemoveAt(saveOps, i)

\* the toasts a step appended
NewToasts == SubSeq(toasts', Len(toasts) + 1, Len(toasts'))

\* C1: in every Viewing state the four form fields and the two display fields equal
\* the profile of the latest backend answer the client has handled.
C1_ViewingShowsConfirmed ==
    (Viewing /\ seenSeq > 0) =>
        /\ inputValue = Shown(seenPerfil)
        /\ userName = Shown(seenPerfil)["nombre"]
        /\ userNIU = Shown(seenPerfil)["niu"]

\* C4: when the fetch of loadPerfil fails, the four form fields and the two display
\* fields keep their values and no notification is shown.
C4_LoadFailureKeepsFields ==
    [][LoadFailureStep =>
          /\ inputValue' = inputValue
          /\ userName' = userName
          /\ userNIU' = userNIU
          /\ toasts' = toasts]_vars

\* C5: no operation of the page ends with a rejection that nobody handles.
C5_NothingEscapes == escaped = {}

\* C6: after a successful save is handled no field is marked both updated and pending,
\* and the save has notified no field both as success and as warning.
C6_OneClassification ==
    [][SaveSuccessStep =>
          \A f \in Fields :
              /\ ~({"updated", "pending"} \subseteq inputClass'[f])
              /\ ~(/\ Toast(fieldMsg(f, TRUE), "success") \in Range(NewToasts)
                   /\ Toast(fieldMsg(f, FALSE), "warning") \in Range(NewToasts))]_vars

\* a save that applied one field and held another has been handled
C6_Witness ==
    /\ \E f, g \in Fields : "updated" \in inputClass[f] /\ "pending" \in inputClass[g]
    /\ \E i, j \in 1..Len(toasts) : toasts[i].type = "success" /\ toasts[j].type = "warning"
    /\ Viewing

----------------------------------------------------------------------------
(* Properties of the login page *)

\* a step in which requestOtp or verifyOtp resumes on the answer of its fetch
LoginResumeStep == Len(loginOps') < Len(loginOps)

\* C3: requestOtp and verifyOtp display 'Error de red' exactly when their fetch got no
\* response at all.
C3_NetworkErrorIffNoResponse ==
    [][LoginResumeStep =>
          (msgText' = "Error de red" <=> loginLast'.ans.kind = "transport")]_vars

\* C10: the stored access_token changes only when verifyOtp handles a success response,
\* and is then the access_token of that response; a refusal and a transport failure
\* leave it as it was.
C10_CredentialWrittenOnVerifySuccess ==
    [][/\ accessToken' # accessToken =>
             /\ LoginResumeStep
             /\ loginLast'.op = "verify"
             /\ loginLast'.ans.kind = "http"
             /\ IsOk(loginLast'.ans.status)
       /\ (/\ LoginResumeStep
           /\ loginLast'.op = "verify"
           /\ loginLast'.ans.kind = "http"
           /\ IsOk(loginLast'.ans.status)
           /\ loginLast'.ans.body.form = "object") =>
             accessToken' = loginLast'.ans.body.obj["access_token"]
       /\ (/\ LoginResumeStep
           /\ (loginLast'.ans.kind = "transport" \/ ~IsOk(loginLast'.ans.status))) =>
             accessToken' = accessToken]_vars

\* a verify succeeded and stored its token while another call was still in flight
C10_Witness ==
    /\ accessToken = "t2"
    /\ loginLast.op = "verify"
    /\ loginLast.ans.kind = "http"
    /\ IsOk(loginLast.ans.status)
    /\ Get(loginLast.ans.body.obj, "access_token") = "t2"
    /\ Len(loginOps) > 0

\* a step in which requestOtp resumes on a success response whose body is an object
\* with a message property
RequestSuccessStep ==
    /\ LoginResumeStep
    /\ loginLast'.op = "request"
    /\ loginLast'.ans.kind = "http"
    /\ IsOk(loginLast'.ans.status)
    /\ loginLast'.ans.body.form = "object"
    /\ "message" \in DOMAIN loginLast'.ans.body.obj

\* a step in which requestOtp (verifyOtp) resumes on a response with a non-success status
RequestRefusedStep ==
    /\ LoginResumeStep
    /\ loginLast'.op = "request"
    /\ loginLast'.ans.kind = "http"
    /\ ~IsOk(loginLast'.ans.status)

VerifyRefusedStep ==
    /\ LoginResumeStep
    /\ loginLast'.op = "verify"
    /\ loginLast'.ans.kind = "http"
    /\ ~IsOk(loginLast'.ans.status)

\* the detail string of a response, if its body is an object that has one
DetailOf(ans) ==
    IF ans.body.form = "object" THEN Get(ans.body.obj, "detail") ELSE Undefined

\* C11 as stated: on a success response with body {message: m} the page displays m
\* and shows the code step instead of the email step.
C11_SuccessShowsMessage ==
    [][RequestSuccessStep =>
          /\ msgText' = loginLast'.ans.body.obj["message"]
          /\ emailStepHidden'
          /\ ~otpStepHidden']_vars

\* C11 amended: on a success response with body {message: m} the page displays m when
\* m is not empty and 'Código enviado' when it is, and shows the code step instead of
\* the email step.
C11_SuccessShowsMessageOrDefault ==
    [][RequestSuccessStep =>
          /\ msgText' = (IF loginLast'.ans.body.obj["message"] = "" THEN "Código enviado"
                         ELSE loginLast'.ans.body.obj["message"])
          /\ emailStepHidden'
          /\ ~otpStepHidden']_vars

\* the backend's message is displayed on the code step
C11_Witness ==
    /\ loginLast.op = "request"
    /\ loginLast.ans = Response(200, JsonObject([message |-> "sent"]))
    /\ msgText = "sent"
    /\ emailStepHidden
    /\ ~otpStepHidden

\* C12: on a response with a non-success status requestOtp displays the detail of the
\* response when it has one and 'Error al solicitar código' otherwise, and leaves the
\* visibility of both steps as it was.
C12_RefusalShowsDetail ==
    [][RequestRefusedStep =>
          /\ msgText' = (IF DetailOf(loginLast'.ans) # Undefined THEN DetailOf(loginLast'.ans)
                         ELSE "Error al solicitar código")
          /\ emailStepHidden' = emailStepHidden
          /\ otpStepHidden' = otpStepHidden]_vars

\* C13: after verifyOtp handled a response with a non-success status the code step is
\* visible, the email step is hidden, the detail of the response (or 'Error al verificar
\* código') is displayed, and the verify button can be clicked again.
C13_RefusedVerifyAwaitsCode ==
    [][VerifyRefusedStep =>
          /\ ~otpStepHidden'
          /\ emailStepHidden'
          /\ msgText' = (IF DetailOf(loginLast'.ans) # Undefined THEN DetailOf(loginLast'.ans)
                         ELSE "Error al verificar código")]_vars

----------------------------------------------------------------------------
(* Properties of the save handler *)

\* the save handler of saveOps[i] resumes on a parsed success response in this step
SaveSuccessOf(i) ==
    /\ i \in 1..Len(saveOps)
    /\ saveOps[i].st = "answered"
    /\ saveOps' = RemoveAt(saveOps, i)

\* a save handler resumes on a failed fetch or a refused save in this step
SaveFailStep ==
    \E i \in 1..Len(saveOps) : saveOps[i].st = "sent" /\ saveOps' = RemoveAt(saveOps, i)

\* the text a form field shows for property f of the response's perfil
PerfilText(p, f) == IF f \in DOMAIN p THEN p[f] ELSE ""

\* the labels of the four fields
Label == [nombre |-> "Nombre", grupo |-> "Grupo", curso |-> "Curso", niu |-> "NIU"]

\* how many elements of the sequence seq equal x
Count(seq, x) == Cardinality({k \in 1..Len(seq) : seq[k] = x})

\* C14: the handling of a successful save response leaves all four fields disabled, the
\* save button hidden, the edit button visible, and the four fields and the two display
\* elements holding the values of the response's perfil, '' for a missing one.
C14_SuccessShowsResponse ==
    [][\A i \in 1..Len(saveOps) : SaveSuccessOf(i) =>
          LET p == saveOps[i].ans.perfil IN
          /\ \A f \in Fields : inputDisabled'[f] /\ inputValue'[f] = PerfilText(p, f)
          /\ saveHidden'
          /\ ~editHidden'
          /\ userName' = PerfilText(p, "nombre")
          /\ userNIU' = PerfilText(p, "niu")]_vars

\* a handled save replaced a typed value by the backend's: the change of grupo is held
\* for approval and the form shows the stored value again
C14_Witness ==
    /\ saved >= 1
    /\ saveOps = <<>>
    /\ saveHidden /\ ~editHidden
    /\ "pending" \in inputClass["grupo"]
    /\ inputValue["grupo"] = ""
    /\ \A f \in Fields : inputDisabled[f]

\* C15: after a successful save a field carries the mark 'updated' exactly when it is
\* in aplicados and the mark 'pending' exactly when it is in pendientes_aprobacion, so a
\* field in neither list carries no mark, whatever an earlier save left on it.
C15_MarksFollowLists ==
    [][\A i \in 1..Len(saveOps) : SaveSuccessOf(i) =>
          \A f \in Fields :
             /\ ("updated" \in inputClass'[f]) <=> (f \in Range(saveOps[i].ans.aplicados))
             /\ ("pending" \in inputClass'[f]) <=> (f \in Range(saveOps[i].ans.pendientes))]_vars

\* a field an earlier save had marked (its notification is there) carries no mark
C15_Witness ==
    \E f \in Fields :
       /\ inputClass[f] = {}
       /\ \E k \in 1..Len(toasts) : toasts[k].msg \in {fieldMsg(f, TRUE), fieldMsg(f, FALSE)}

\* C16: a successful save appends one 'success' notification per name in aplicados and
\* one 'warning' notification per name in pendientes_aprobacion, worded with the label
\* of the field, and nothing else.
C16_OneNotificationPerName ==
    [][\A i \in 1..Len(saveOps) : SaveSuccessOf(i) =>
          LET ans == saveOps[i].ans IN
          /\ Len(toasts') = Len(toasts) + Len(ans.aplicados) + Len(ans.pendientes)
          /\ SubSeq(toasts', 1, Len(toasts)) = toasts
          /\ \A f \in Fields :
                /\ Count(NewToasts, [msg |-> Label[f] \o " modificado correctamente",
                                     type |-> "success", hide |-> FALSE])
                     = Count(ans.aplicados, f)
                /\ Count(NewToasts, [msg |-> "Cambio de " \o Label[f]
                                               \o " solicitado correctamente",
                                     type |-> "warning", hide |-> FALSE])
                     = Count(ans.pendientes, f)]_vars

\* one save produced a success notification for NIU and a warning for Grupo
C16_Witness ==
    /\ Len(toasts) = 2
    /\ \E k \in 1..2 : toasts[k] = [msg |-> "NIU modificado correctamente",
                                     type |-> "success", hide |-> FALSE]
    /\ \E k \in 1..2 : toasts[k] = [msg |-> "Cambio de Grupo solicitado correctamente",
                                     type |-> "warning", hide |-> FALSE]

\* C17: a save that fails (refused by the backend, or no usable response) changes
\* nothing in the form, the marks, the display elements or the two buttons, and appends
\* no notification.
C17_FailedSaveChangesNothing ==
    [][SaveFailStep =>
          UNCHANGED <<inputValue, inputDisabled, inputClass, userName, userNIU,
                      editHidden, saveHidden, toasts>>]_vars

\* a save failed while the form was being edited: the typed value is still there
C17_Witness ==
    /\ saved = 1
    /\ saveOps = <<>>
    /\ "save" \in escaped
    /\ toasts = <<>>
    /\ ~saveHidden /\ editHidden
    /\ inputValue["grupo"] = "b"
    /\ \A f \in Fields : ~inputDisabled[f] /\ inputClass[f] = {}

\* C20: exactly one of the edit and save buttons is visible, the four fields are
\* enabled exactly when the save button is the visible one, and an edit click enables
\* the four fields and shows the save button.
C20_OneControlVisible ==
    /\ [](/\ editHidden # saveHidden
          /\ \A f \in Fields : inputDisabled[f] = saveHidden)
    /\ [][(~editHidden /\ editHidden') =>
             /\ \A f \in Fields : ~inputDisabled'[f]
             /\ ~saveHidden']_vars

\* the form is edited again after a successful save
C20_Witness ==
    /\ saved >= 1
    /\ toasts # <<>>
    /\ editHidden /\ ~saveHidden
    /\ \A f \in Fields : ~inputDisabled[f]

----------------------------------------------------------------------------
(* Properties of the toasts *)

\* C19: a toast is appended without 'hide', is marked 'hide' by its timer, and is
\* removed by animationend: no toast leaves the container unless it carried 'hide', a
\* toast in the container changes only by gaining 'hide', and every toast that was
\* appended is removed in the end (the container empties after the last call).
C19_ToastLifecycle ==
    /\ [][Len(toasts') > Len(toasts) =>
             /\ Len(toasts') = Len(toasts) + 1
             /\ SubSeq(toasts', 1, Len(toasts)) = toasts
             /\ ~toasts'[Len(toasts')].hide]_vars
    /\ [][Len(toasts') = Len(toasts) =>
             \A i \in 1..Len(toasts) :
                toasts'[i] # toasts[i] =>
                   ~toasts[i].hide /\ toasts'[i] = [toasts[i] EXCEPT !.hide = TRUE]]_vars
    /\ [][Len(toasts') < Len(toasts) =>
             \E i \in 1..Len(toasts) : toasts[i].hide /\ toasts' = RemoveAt(toasts, i)]_vars
    /\ (toasts # <<>>) ~> (toasts = <<>>)

\* of two toasts one has been removed and the other is marked 'hide'
C19_Witness ==
    /\ toastCalls = 2
    /\ Len(toasts) = 1
    /\ toasts[1].hide

----------------------------------------------------------------------------
(* Properties of the gateway *)

\* C2: the proxy endpoints answer with the fixed 500 response only when the backend gave
\* no response at all; when the backend responded, the status sent is the backend's.
C2_FailureOnlyWhenUnreachable ==
    proxyLast.endpoint # "none" =>
        /\ proxyLast.out = ProxyFailure => proxyLast.ans.kind = "transport"
        /\ proxyLast.ans.kind = "http" => proxyLast.out.status = proxyLast.ans.status

\* C9: when the backend answers a relayed call with status s and a JSON body b, the
\* endpoint answers its caller with status s and body b.
C9_RelaysStatusAndBody ==
    (/\ proxyLast.endpoint # "none"
     /\ proxyLast.ans.kind = "http"
     /\ proxyLast.ans.body.form # "malformed") =>
        /\ proxyLast.out.status = proxyLast.ans.status
        /\ proxyLast.out.body = proxyLast.ans.body

\* a refusal of the backend with a detail was relayed by /api/verify-otp
C9_Witness ==
    /\ proxyLast.endpoint = "verify-otp"
    /\ proxyLast.ans = Response(400, JsonObject([detail |-> "bad code"]))
    /\ proxyLast.out.status = 400

\* the theme fetch of the page request served last failed
ThemeFetchFailed ==
    \/ pageTheme.ans.kind = "transport"
    \/ ~IsOk(pageTheme.ans.status)
    \/ pageTheme.ans.body.form = "malformed"

\* C7: when the theme fetch fails, the theme of the page is exactly the fixed default
\* palette.
C7_FailureGivesDefaultPalette ==
    (pageTheme.build # "none" /\ ThemeFetchFailed) =>
        pageTheme.theme = JsonObject([primary |-> "#0ea5e9", secondary |-> "#64748b",
                                      topbar |-> "#64748b", accent |-> "#22c55e"])

\* the backend refused the fetch with a JSON palette in the body, in either build
C7_Witness ==
    /\ pageTheme.build \in {"part_000", "part_001"}
    /\ pageTheme.ans.kind = "http"
    /\ pageTheme.ans.status = 404
    /\ pageTheme.ans.body.form = "object"
    /\ DOMAIN pageTheme.ans.body.obj = {"primary"}
    /\ pageTheme.theme = DEFAULT_THEME

\* C8: when the theme fetch succeeds with a parseable body, the theme of the page is
\* exactly the parsed body: no role added, changed or removed.
C8_SuccessGivesParsedMapping ==
    (pageTheme.build # "none" /\ ~ThemeFetchFailed) => pageTheme.theme = pageTheme.ans.body

\* the backend configured accent only, and the page got accent only
C8_Witness ==
    /\ pageTheme.build # "none"
    /\ ~ThemeFetchFailed
    /\ pageTheme.ans.body.form = "object"
    /\ DOMAIN pageTheme.ans.body.obj = {"accent"}
    /\ DOMAIN pageTheme.theme.obj = {"accent"}

\* a step in which a page request resolves the theme
PageRequestStep ==
    /\ themeBackend' = themeBackend
    /\ pageTheme'.build # "none"
    /\ UNCHANGED <<profileVars, loginVars, proxyVars, toastVars>>

\* C18: the theme a page request resolves depends only on what the backend answers to
\* the fetch of that request: it equals the theme of the previous request when the
\* backend answers as it did then, and when the backend has become unreachable or
\* serves a palette it is the default palette or that palette, whatever was resolved
\* before.
C18_ThemeResolvedFresh ==
    [][PageRequestStep =>
          /\ (pageTheme.build # "none" /\ pageTheme.ans = themeBackend)
                => pageTheme'.theme = pageTheme.theme
          /\ themeBackend.kind = "transport"
                => pageTheme'.theme =
                      JsonObject([primary |-> "#0ea5e9", secondary |-> "#64748b",
                                  topbar |-> "#64748b", accent |-> "#22c55e"])
          /\ (themeBackend.kind = "http" /\ IsOk(themeBackend.status)
                /\ themeBackend.body.form = "object")
                => pageTheme'.theme = themeBackend.body]_vars

\* a page got the palette the backend had been given after start (topbar only), and
\* the backend has become unreachable since
C18_Witness ==
    /\ pageTheme.build = "part_001"
    /\ pageTheme.ans.kind = "http"
    /\ IsOk(pageTheme.ans.status)
    /\ pageTheme.ans.body.form = "object"
    /\ DOMAIN pageTheme.ans.body.obj = {"topbar"}
    /\ pageTheme.theme = pageTheme.ans.body
    /\ themeBackend = NoResponse

====
